---- MODULE Spec2Model ----
(***************************************************************************)
(* A model of internet.py (chrislaskey/internet.py): the JSON policy store *)
(* (groups, active), the handlers add / remove / empty / activate /        *)
(* deactivate, the schedule test _is_live and the hosts file generation    *)
(* update_hosts.                                                           *)
(*                                                                         *)
(* Python strings are modelled as sequences of one-character strings, so   *)
(* that lower(), prefix matching, partition(), int() and the string sort   *)
(* are computed and not assumed.  One step of the model is one handler     *)
(* call of one run of the script; the state between steps is what the run  *)
(* leaves on disk (the JSON file, the three hosts files) together with the *)
(* run's options.update flag and the outcome of the last handler.          *)
(***************************************************************************)
EXTENDS Integers, Sequences, FiniteSets, TLC

VARIABLES groups, active, update, fs, last

vars == <<groups, active, update, fs, last>>

(***************************************************************************)
(* Python strings                                                          *)
(***************************************************************************)

\* The characters used, in ascending code point order (str comparison).
ASCII ==
  << "*", "-", ".", "/",
     "0", "1", "2", "3", "4", "5", "6", "7", "8", "9", ":",
     "A", "B", "C", "D", "E", "F", "G", "H", "I", "J", "K", "L", "M",
     "N", "O", "P", "Q", "R", "S", "T", "U", "V", "W", "X", "Y", "Z",
     "a", "b", "c", "d", "e", "f", "g", "h", "i", "j", "k", "l", "m",
     "n", "o", "p", "q", "r", "s", "t", "u", "v", "w", "x", "y", "z" >>

UPPERCASE ==
  << "A", "B", "C", "D", "E", "F", "G", "H", "I", "J", "K", "L", "M",
     "N", "O", "P", "Q", "R", "S", "T", "U", "V", "W", "X", "Y", "Z" >>

LOWERCASE ==
  << "a", "b", "c", "d", "e", "f", "g", "h", "i", "j", "k", "l", "m",
     "n", "o", "p", "q", "r", "s", "t", "u", "v", "w", "x", "y", "z" >>

DIGITS == << "0", "1", "2", "3", "4", "5", "6", "7", "8", "9" >>

\* The rank of a character in code point order.
Ord(c) == CHOOSE i \in 1..Len(ASCII) : ASCII[i] = c

Range(s) == { s[i] : i \in 1..Len(s) }

\* x in list
In(x, s) == \E i \in 1..Len(s) : s[i] = x

\* str.lower()
LowerChar(c) ==
  IF \E i \in 1..Len(UPPERCASE) : UPPERCASE[i] = c
    THEN LOWERCASE[CHOOSE i \in 1..Len(UPPERCASE) : UPPERCASE[i] = c]
    ELSE c

Lower(s) == [i \in 1..Len(s) |-> LowerChar(s[i])]

\* re.match(p, s) for a literal pattern p: s starts with p
StartsWith(s, p) == Len(s) >= Len(p) /\ SubSeq(s, 1, Len(p)) = p

\* a < b for two str values (byte-wise lexicographic, a proper prefix is less)
RECURSIVE StrLess(_, _)
StrLess(a, b) ==
  IF b = <<>> THEN FALSE
  ELSE IF a = <<>> THEN TRUE
  ELSE IF a[1] # b[1] THEN Ord(a[1]) < Ord(b[1])
  ELSE StrLess(Tail(a), Tail(b))

\* sorted(S) for a set of str values
RECURSIVE SortSet(_)
SortSet(S) ==
  IF S = {} THEN <<>>
  ELSE LET m == CHOOSE x \in S : \A y \in S : x = y \/ StrLess(x, y)
       IN  <<m>> \o SortSet(S \ {m})

\* list(set(l)) followed by l.sort()
UniqueSorted(l) == SortSet(Range(l))

\* list.remove(x): drops the first occurrence of x
ListRemove(l, x) ==
  IF ~In(x, l) THEN l
  ELSE LET k == CHOOSE i \in 1..Len(l) : l[i] = x /\ \A j \in 1..(i - 1) : l[j] # x
       IN  SubSeq(l, 1, k - 1) \o SubSeq(l, k + 1, Len(l))

\* int(s) for a str of decimal digits
DigitValue(c) == (CHOOSE i \in 1..Len(DIGITS) : DIGITS[i] = c) - 1

IsDigits(s) == s # <<>> /\ \A i \in 1..Len(s) : In(s[i], DIGITS)

RECURSIVE ParseInt(_)
ParseInt(s) ==
  IF Len(s) = 1 THEN DigitValue(s[1])
  ELSE 10 * ParseInt(SubSeq(s, 1, Len(s) - 1)) + DigitValue(s[Len(s)])

\* s.partition('-'): the text before and after the first '-'
DashAt(s) == CHOOSE i \in 1..Len(s) : s[i] = "-" /\ \A j \in 1..(i - 1) : s[j] # "-"

PartitionHead(s) == SubSeq(s, 1, DashAt(s) - 1)

PartitionTail(s) == SubSeq(s, DashAt(s) + 1, Len(s))

(***************************************************************************)
(* Literals of the program                                                 *)
(***************************************************************************)

\* None, and equally the empty string: every test the handlers make of an
\* option ("if not self.options.group", "self.options.hour and ...",
\* "self.options.day != None and self.options.day in ...") treats the two alike.
None == <<>>

STAR == << "*" >>

DEFAULT == << "d", "e", "f", "a", "u", "l", "t" >>

HTTP == << "h", "t", "t", "p", ":", "/", "/" >>

Monday == << "M", "o", "n", "d", "a", "y" >>

Tuesday == << "T", "u", "e", "s", "d", "a", "y" >>

Wednesday == << "W", "e", "d", "n", "e", "s", "d", "a", "y" >>

Thursday == << "T", "h", "u", "r", "s", "d", "a", "y" >>

Friday == << "F", "r", "i", "d", "a", "y" >>

Saturday == << "S", "a", "t", "u", "r", "d", "a", "y" >>

Sunday == << "S", "u", "n", "d", "a", "y" >>

\* the dict of _is_live, indexed by datetime.weekday() + 1
day_names == << Monday, Tuesday, Wednesday, Thursday, Friday, Saturday, Sunday >>

\* days_map of add
days_map == << Monday, Tuesday, Wednesday, Thursday, Friday, Saturday, Sunday, STAR >>

\* the characters of the class [0-9-\*]
HOUR_CLASS == << "0", "1", "2", "3", "4", "5", "6", "7", "8", "9", "-", "*" >>

\* the group record json.loads builds for a new group
new_group == [hours |-> << STAR >>, domains |-> << >>, days |-> << STAR >>]

\* datetime.now().hour and datetime.now().weekday()
HOURS == 0..23

WEEKDAYS == 0..6

(***************************************************************************)
(* _is_live                                                                *)
(***************************************************************************)

\* hour == str, an int compared with a str: never equal in Python
IntEqualsStr(hour, str) == FALSE

\* re.search('\-', str)
HasDash(str) == In("-", str)

\* the range test with the end hour included
in_range_closed(hour, str) ==
  /\ hour >= ParseInt(PartitionHead(str))
  /\ hour <= ParseInt(PartitionTail(str))

\* hour >= int(hour_start) and hour < int(hour_end)
in_range(hour, str) ==
  /\ hour >= ParseInt(PartitionHead(str))
  /\ hour < ParseInt(PartitionTail(str))

\* one pass of the loop over group.get('hours')
spec_matches(hour, str) ==
  IF HasDash(str) THEN in_range(hour, str) ELSE IntEqualsStr(hour, str)

\* int() raises ValueError in the loop: a range whose end is no decimal number
hours_raise(hours) ==
  /\ ~In(STAR, hours)
  /\ \E i \in 1..Len(hours) :
       /\ HasDash(hours[i])
       /\ ~(IsDigits(PartitionHead(hours[i])) /\ IsDigits(PartitionTail(hours[i])))

in_day(group, weekday) ==
  In(STAR, group.days) \/ In(day_names[weekday + 1], group.days)

in_hours(group, hour) ==
  \/ In(STAR, group.hours)
  \/ \E i \in 1..Len(group.hours) : spec_matches(hour, group.hours[i])

\* _is_live(groupname) read at the instant (hour, weekday), on the store gs
is_live(gs, groupname, hour, weekday) ==
  IF groupname \notin DOMAIN gs THEN FALSE
  ELSE in_hours(gs[groupname], hour) /\ in_day(gs[groupname], weekday)

(***************************************************************************)
(* Bounds of the model                                                     *)
(***************************************************************************)

\* the longest "active" list and the longest "domains" list a run may leave
MaxActive == 2

MaxDomains == 2

\* the answers one run may type at the (y/n/quit) prompts
MaxAnswers == 2

(***************************************************************************)
(* The store: _load_json                                                   *)
(***************************************************************************)

\* the skeleton _load_json writes when the JSON file does not exist
skeleton_groups == (DEFAULT :> new_group)

skeleton_active == << DEFAULT >>

(***************************************************************************)
(* add                                                                     *)
(***************************************************************************)

\* add_spec appending a concrete spec to the wildcard
add_spec_append(current, option) ==
  UniqueSorted(IF option = STAR THEN << STAR >> ELSE Append(current, option))

\* add_spec appending the wildcard to the concrete specs
add_spec_keep(current, option) ==
  UniqueSorted(IF In(STAR, current) THEN << option >> ELSE Append(current, option))

\* "Determine how to add hours" / "Determine how to add days", then
\* list(set(..)) and sort()
add_spec(current, option) ==
  UniqueSorted(IF option = STAR THEN << STAR >>
               ELSE IF In(STAR, current) THEN << option >>
               ELSE Append(current, option))

\* re.search('[0-9-\*]', self.options.hour)
hour_accepted(hour) == hour # None /\ \E i \in 1..Len(hour) : In(hour[i], HOUR_CLASS)

\* self.options.day and self.options.day in days_map
day_accepted(day) == day # None /\ In(day, days_map)

\* domain.lower(), then the leading 'http://' cut off
normalize_domain(domain) ==
  IF StartsWith(Lower(domain), HTTP)
    THEN SubSeq(Lower(domain), Len(HTTP) + 1, Len(domain))
    ELSE Lower(domain)

\* "Add group domains if needed": the domains list after the append
add_domain(domains, domain) == Append(domains, normalize_domain(domain))

\* "Activate group by default": the active list after add
add_active(act, groupname) == Append(act, groupname)

\* "Determine group. Create group if needed."
add_groupname(group) == IF group = None THEN DEFAULT ELSE Lower(group)

add_create(gs, group) ==
  IF group # None /\ add_groupname(group) \notin DOMAIN gs
    THEN gs @@ (add_groupname(group) :> new_group)
    ELSE gs

\* add() reads a field of self.data['groups'].get(groupname) when that is
\* None: AttributeError, the run dies before _save_json
add_raises(gs, group, hour, day, domain) ==
  /\ add_groupname(group) \notin DOMAIN add_create(gs, group)
  /\ (hour_accepted(hour) \/ day_accepted(day) \/ domain # None)

\* self.data['groups'] when add() reaches _save_json
add_groups(gs, group, hour, day, domain) ==
  LET name == add_groupname(group)
      g0   == add_create(gs, group)
      g1   == IF hour_accepted(hour)
                THEN [g0 EXCEPT ![name].hours = add_spec(g0[name].hours, hour)]
                ELSE g0
      g2   == IF day_accepted(day)
                THEN [g1 EXCEPT ![name].days = add_spec(g1[name].days, day)]
                ELSE g1
  IN  IF domain # None
        THEN [g2 EXCEPT ![name].domains = add_domain(g2[name].domains, domain)]
        ELSE g2

add(group, hour, day, domain) ==
  /\ IF add_raises(groups, group, hour, day, domain)
       THEN /\ last' = [op |-> "add", result |-> "raised"]
            /\ UNCHANGED <<groups, active, update, fs>>
       ELSE /\ Len(active) < MaxActive
            /\ groups' = add_groups(groups, group, hour, day, domain)
            /\ \A g \in DOMAIN groups' : Len(groups'[g].domains) <= MaxDomains
            /\ active' = add_active(active, add_groupname(group))
            /\ update' = TRUE
            /\ last' = [op |-> "add", result |-> "saved"]
            /\ UNCHANGED fs

(***************************************************************************)
(* remove                                                                  *)
(***************************************************************************)

YES == << "y" >>

NO == << "n" >>

QUIT == << "q", "u", "i", "t" >>

\* re.match('(y|n|quit)', command)
recognized(command) ==
  StartsWith(command, YES) \/ StartsWith(command, NO) \/ StartsWith(command, QUIT)

\* del self.data.get('groups')[name]
del_group(gs, name) == [k \in DOMAIN gs \ {name} |-> gs[k]]

\* "Remove group and update JSON", then _save_json: KeyError when the group
\* is no longer there, and then the JSON file stays as it is
remove_delete(mem, disk, name) ==
  IF name \in DOMAIN mem
    THEN [mem |-> del_group(mem, name), disk |-> del_group(mem, name), result |-> "saved"]
    ELSE [mem |-> mem, disk |-> disk, result |-> "raised"]

\* The branch of remove() that removes a whole group, with the answers the
\* user types.  mem is self.data['groups'], disk the groups of the JSON file.
\* An unrecognized answer calls self.remove() again and then goes on with the
\* answer it had.  The run ends on quit (sys.exit), on the end of the input
\* (EOFError) and on an exception.
RECURSIVE remove_group(_, _, _, _)
remove_group(mem, disk, name, answers) ==
  IF answers = << >>
    THEN [mem |-> mem, disk |-> disk, result |-> "eof"]
    ELSE LET command == Lower(Head(answers))
         IN  IF ~recognized(command)
               THEN LET r == remove_group(mem, disk, name, Tail(answers))
                    IN  IF r.result \in {"eof", "quit", "raised"}
                          THEN r
                          ELSE remove_delete(r.mem, r.disk, name)
               ELSE IF command = QUIT
                 THEN [mem |-> mem, disk |-> disk, result |-> "quit"]
               ELSE IF command = NO
                 THEN [mem |-> mem, disk |-> disk, result |-> "declined"]
               ELSE remove_delete(mem, disk, name)

\* "Remove day", "Remove domains", "Remove hours" on the group record
remove_fields(group, day, domain, hour) ==
  [days    |-> IF day # None THEN ListRemove(group.days, day) ELSE group.days,
   domains |-> IF domain # None THEN ListRemove(group.domains, domain) ELSE group.domains,
   hours   |-> IF hour # None THEN ListRemove(group.hours, hour) ELSE group.hours]

\* remove() without "Verify group exists": the prompt comes up and the del
\* raises KeyError; the removal of a value raises AttributeError on None
remove_unverified(group, day, domain, hour, answers) ==
  /\ IF group = None
       THEN /\ last' = [op |-> "remove", result |-> "error"]
            /\ UNCHANGED <<groups, active, update, fs>>
       ELSE IF day = None /\ domain = None /\ hour = None
         THEN LET r == remove_group(groups, groups, Lower(group), answers)
              IN  /\ groups' = r.disk
                  /\ update' = (r.result = "saved")
                  /\ last' = [op |-> "remove", result |-> r.result]
                  /\ UNCHANGED <<active, fs>>
         ELSE IF Lower(group) \notin DOMAIN groups
           THEN /\ last' = [op |-> "remove", result |-> "raised"]
                /\ UNCHANGED <<groups, active, update, fs>>
           ELSE /\ groups' = [groups EXCEPT ![Lower(group)] =
                                 remove_fields(groups[Lower(group)], day, domain, hour)]
                /\ update' = TRUE
                /\ last' = [op |-> "remove", result |-> "saved"]
                /\ UNCHANGED <<active, fs>>

remove(group, day, domain, hour, answers) ==
  /\ IF group = None \/ Lower(group) \notin DOMAIN groups
       THEN /\ last' = [op |-> "remove", result |-> "error"]
            /\ UNCHANGED <<groups, active, update, fs>>
       ELSE IF day = None /\ domain = None /\ hour = None
         THEN LET r == remove_group(groups, groups, Lower(group), answers)
              IN  /\ groups' = r.disk
                  /\ update' = (r.result = "saved")
                  /\ last' = [op |-> "remove", result |-> r.result]
                  /\ UNCHANGED <<active, fs>>
         ELSE /\ groups' = [groups EXCEPT ![Lower(group)] =
                               remove_fields(groups[Lower(group)], day, domain, hour)]
              /\ update' = TRUE
              /\ last' = [op |-> "remove", result |-> "saved"]
              /\ UNCHANGED <<active, fs>>

(***************************************************************************)
(* empty                                                                   *)
(***************************************************************************)

\* --empty putting the field back to the wildcard
empty_field_wildcard(group, field) ==
  IF field = "days" THEN [group EXCEPT !.days = << STAR >>]
  ELSE IF field = "domains" THEN [group EXCEPT !.domains = << >>]
  ELSE IF field = "hours" THEN [group EXCEPT !.hours = << STAR >>]
  ELSE group

empty_field(group, field) ==
  IF field = "days" THEN [group EXCEPT !.days = << >>]
  ELSE IF field = "domains" THEN [group EXCEPT !.domains = << >>]
  ELSE IF field = "hours" THEN [group EXCEPT !.hours = << >>]
  ELSE group

empty(group, field) ==
  /\ IF group = None \/ Lower(group) \notin DOMAIN groups
       THEN /\ last' = [op |-> "empty", result |-> "error"]
            /\ UNCHANGED <<groups, active, update, fs>>
       ELSE /\ groups' = [groups EXCEPT ![Lower(group)] =
                             empty_field(groups[Lower(group)], field)]
            /\ update' = TRUE
            /\ last' = [op |-> "empty", result |-> "saved"]
            /\ UNCHANGED <<active, fs>>

(***************************************************************************)
(* activate, deactivate                                                    *)
(***************************************************************************)

activate_active(act, gs, group) ==
  IF group # None /\ ~In(group, act) /\ group \in DOMAIN gs
    THEN Append(act, group)
    ELSE act

activate(group) ==
  /\ active' = activate_active(active, groups, group)
  /\ Len(active') <= MaxActive
  /\ last' = [op |-> "activate", result |-> "saved"]
  /\ UNCHANGED <<groups, update, fs>>

deactivate_active(act, gs, group) ==
  IF group # None /\ In(group, act) /\ group \in DOMAIN gs
    THEN ListRemove(act, group)
    ELSE act

deactivate(group) ==
  /\ active' = deactivate_active(active, groups, group)
  /\ last' = [op |-> "deactivate", result |-> "saved"]
  /\ UNCHANGED <<groups, update, fs>>

(***************************************************************************)
(* update_hosts                                                            *)
(***************************************************************************)

\* A file's text is a sequence of pieces.  The settings' paths:
hosts_file == "/etc/hosts"

hosts_file_original == "/etc/hosts.original"

hosts_file_template == "/etc/hosts.template"

hosts_file_blackhole == << "127.0.0.250" >>

\* the disclaimer text, as one piece
disclaimer == << "\n##\n# WARNING ... disable the internet.py script first!\n##\n" >>

\* the hosts file before the script ever ran
pristine_hosts == << "127.0.0.1\tlocalhost\n" >>

\* _init_hosts: the files after the bootstrap (the hosts file exists)

\* "Create hosts.original file" without the test os.path.exists
init_original_always(files) ==
  [f \in DOMAIN files \cup {hosts_file_original} |->
     IF f = hosts_file_original THEN files[hosts_file] ELSE files[f]]

init_original(files) ==
  IF hosts_file_original \in DOMAIN files
    THEN files
    ELSE files @@ (hosts_file_original :> files[hosts_file])

init_template(files) ==
  IF hosts_file_template \in DOMAIN files
    THEN files
    ELSE files @@ (hosts_file_template :> files[hosts_file_original])

init_hosts(files) == init_template(init_original(files))

\* update_hosts starting from the live file instead of the template
read_live(files) == files[hosts_file]

\* the template update_hosts reads
read_template(files) == files[hosts_file_template]

\* the test of the loop without the call of _is_live
contributes_unscheduled(gs, name, hour, weekday) == name \in DOMAIN gs

\* "Check active groups, verify each exists and is live": the set domains
contributes(gs, name, hour, weekday) ==
  name \in DOMAIN gs /\ is_live(gs, name, hour, weekday)

collect_domains(gs, act, hour, weekday) ==
  UNION { Range(gs[act[i]].domains) :
            i \in { j \in 1..Len(act) : contributes(gs, act[j], hour, weekday) } }

\* list(domains) and domains.sort()
sorted_domains(gs, act, hour, weekday) == SortSet(collect_domains(gs, act, hour, weekday))

\* sep.join(list)
RECURSIVE Join(_, _)
Join(sep, list) ==
  IF list = << >> THEN << >>
  ELSE IF Len(list) = 1 THEN list[1]
  ELSE list[1] \o sep \o Join(sep, Tail(list))

\* '\n{0}\t'.format(blackhole)
line_prefix == << "\n" >> \o hosts_file_blackhole \o << "\t" >>

\* the body with every line ended by a newline, none before the first
render_body_terminated(domains) ==
  IF Len(domains) > 0
    THEN Join(<< "\n" >>, [i \in 1..Len(domains) |-> hosts_file_blackhole \o << "\t" >> \o domains[i]])
           \o << "\n" >>
    ELSE << >>

render_body(domains) ==
  IF Len(domains) > 0 THEN line_prefix \o Join(line_prefix, domains) ELSE << >>

\* hosts_content = template + disclaimer + body
hosts_content(files, gs, act, hour, weekday) ==
  read_template(files) \o disclaimer \o render_body(sorted_domains(gs, act, hour, weekday))

\* _is_live raises inside the loop over the active groups
update_raises(gs, act) ==
  \E i \in 1..Len(act) : act[i] \in DOMAIN gs /\ hours_raise(gs[act[i]].hours)

\* confirm(hosts_content): TRUE when the run goes on to write.  An unrecognized
\* answer calls confirm('') and then goes on with the answer it had; quit, n
\* and the end of the input end the run.
RECURSIVE confirm(_)
confirm(answers) ==
  IF answers = << >> THEN FALSE
  ELSE LET command == Head(answers)
       IN  IF ~recognized(command)
             THEN confirm(Tail(answers)) /\ ~(command = QUIT \/ command = NO)
             ELSE ~(command = QUIT \/ command = NO)

\* "Write to hosts file": the files after the bootstrap and the write
write_hosts(files, gs, act, hour, weekday) ==
  [init_hosts(files) EXCEPT ![hosts_file] =
     hosts_content(init_hosts(files), gs, act, hour, weekday)]

update_hosts(hour, weekday, confirmed, answers) ==
  /\ hosts_file \in DOMAIN fs
  /\ update' = FALSE
  /\ UNCHANGED <<groups, active>>
  /\ IF update_raises(groups, active)
       THEN /\ fs' = init_hosts(fs)
            /\ last' = [op |-> "update_hosts", result |-> "raised"]
       ELSE IF confirmed /\ ~confirm(answers)
         THEN /\ fs' = init_hosts(fs)
              /\ last' = [op |-> "update_hosts", result |-> "quit"]
         ELSE /\ fs' = write_hosts(fs, groups, active, hour, weekday)
              /\ last' = [op |-> "update_hosts", result |-> "written"]

(***************************************************************************)
(* The runs of the script                                                  *)
(***************************************************************************)

WORK == << "w", "o", "r", "k" >>

Work == << "W", "o", "r", "k" >>

A_COM == << "a", ".", "c", "o", "m" >>

B_COM == << "b", ".", "c", "o", "m" >>

HTTP_A_COM == << "H", "T", "T", "P", ":", "/", "/", "A", ".", "c", "o", "m" >>

H8 == << "8" >>

H9_17 == << "9", "-", "1", "7" >>

\* the state after the first _load_json, before the script ever wrote the hosts file
Init ==
  /\ groups = skeleton_groups
  /\ active = skeleton_active
  /\ update = FALSE
  /\ fs = (hosts_file :> pristine_hosts)
  /\ last = [op |-> "init", result |-> "saved"]

\* every sequence of at most MaxAnswers answers
Answers(A) == UNION { [1..n -> A] : n \in 0..MaxAnswers }

\* __init__: one of remove, empty, add, activate, deactivate, on the options
\* of the command line (G groups, H hours, D days, Dom domains, F fields of
\* --empty, A answers typed at the prompt)
Handlers(G, H, D, Dom, F, A) ==
  \/ \E g \in G, h \in H, d \in D, dom \in Dom : add(g, h, d, dom)
  \/ \E g \in G, d \in D, dom \in Dom, h \in H :
       /\ ~(d = None /\ dom = None /\ h = None)
       /\ remove(g, d, dom, h, << >>)
  \/ \E g \in G, a \in Answers(A) : remove(g, None, None, None, a)
  \/ \E g \in G, f \in F : empty(g, f)
  \/ \E g \in G : activate(g)
  \/ \E g \in G : deactivate(g)

\* __init__: update_hosts, when the handler asked for it or on --update,
\* at the instants CH x CD, without and with --confirm
Updates(CH, CD, A) ==
  \/ \E hour \in CH, weekday \in CD : update_hosts(hour, weekday, FALSE, << >>)
  \/ \E hour \in CH, weekday \in CD, a \in Answers(A) : update_hosts(hour, weekday, TRUE, a)

\* int -> str, as the user types an hour
ToStr(n) ==
  IF n < 10 THEN << DIGITS[n + 1] >>
  ELSE << DIGITS[(n \div 10) + 1], DIGITS[(n % 10) + 1] >>

RangeStr(start, end) == ToStr(start) \o << "-" >> \o ToStr(end)

\* One whole run after the other: a handler, then update_hosts when the
\* handler set options.update; or update_hosts alone (--update, no arguments).
Next ==
  \/ /\ ~update
     /\ Handlers({None, DEFAULT}, {None, H9_17}, {None}, {None, B_COM, A_COM},
                 {"domains"}, {YES, NO, << "x" >>})
  \/ Updates({16, 17}, {0}, {YES, NO, << "x" >>})

Spec == Init /\ [][Next]_vars

\* The handlers on the hours and the days of the groups.  update_hosts, which
\* ends a run and leaves the store alone, is left out.
ScheduleGroups == {None, DEFAULT}

ScheduleHours == {None, STAR, H8, H9_17}

ScheduleDays == {None, STAR, Monday}

NextSchedule ==
  Handlers(ScheduleGroups, ScheduleHours, ScheduleDays, {None}, {"hours", "days"}, {YES, NO})

SpecSchedule == Init /\ [][NextSchedule]_vars

\* The handlers on two groups and their domains, update_hosts left out.
StoreGroups == {None, DEFAULT, WORK, Work}

StoreDomains == {None, B_COM, HTTP_A_COM}

NextStore ==
  Handlers(StoreGroups, {None}, {None}, StoreDomains, {"domains"}, {YES, << "x" >>})

SpecStore == Init /\ [][NextStore]_vars

\* _is_live as a function of the hour spec and the instant: the store after
\* one "--add --hour h --day d --domain a.com" on the new store, then
\* update_hosts at every instant.
HourSpecs ==
  {STAR} \cup { ToStr(n) : n \in HOURS } \cup { RangeStr(a, b) : a \in HOURS, b \in HOURS }

DaySpecs == {STAR, Monday, Sunday}

InitLive ==
  \E h \in HourSpecs, d \in DaySpecs :
    /\ groups = add_groups(skeleton_groups, None, h, d, A_COM)
    /\ active = add_active(skeleton_active, DEFAULT)
    /\ update = TRUE
    /\ fs = (hosts_file :> pristine_hosts)
    /\ last = [op |-> "add", result |-> "saved"]

NextLive == \E hour \in HOURS, weekday \in WEEKDAYS : update_hosts(hour, weekday, FALSE, << >>)

SpecLive == InitLive /\ [][NextLive]_vars

\* update_hosts as a function of the store and the instant: every store of
\* two groups with these fields, then update_hosts.
SynthNames == {DEFAULT, WORK}

SynthDomains == UNION { [1..n -> {A_COM, B_COM}] : n \in 0..MaxDomains }

\* always live, or live on Monday from 9 to 16
SynthSchedules ==
  { [hours |-> << STAR >>, days |-> << STAR >>],
    [hours |-> << H9_17 >>, days |-> << Monday >>] }

SynthGroups ==
  { [hours |-> s.hours, days |-> s.days, domains |-> d] :
      s \in SynthSchedules, d \in SynthDomains }

SynthStores == UNION { [names -> SynthGroups] : names \in SUBSET SynthNames }

SynthActive == UNION { [1..n -> SynthNames] : n \in 0..MaxActive }

InitSynth ==
  /\ groups \in SynthStores
  /\ active \in SynthActive
  /\ update = FALSE
  /\ fs = (hosts_file :> pristine_hosts)
  /\ last = [op |-> "init", result |-> "saved"]

NextSynth ==
  \E hour \in {8, 9, 16, 17}, weekday \in {0, 1} : update_hosts(hour, weekday, FALSE, << >>)

SpecSynth == InitSynth /\ [][NextSynth]_vars

\* The handlers on options that add() is to turn down: an hour that is no
\* hour of the day and a day that is no weekday name, next to good ones.
H25 == << "2", "5" >>

Funday == << "F", "u", "n", "d", "a", "y" >>

InvalidGroups == {None, WORK}

InvalidHours == {None, H8, H25}

InvalidDays == {None, Monday, Funday}

NextInvalid ==
  Handlers(InvalidGroups, InvalidHours, InvalidDays, {None}, {"hours"}, {YES})

SpecInvalid == Init /\ [][NextInvalid]_vars

\* The runs with the prompts: the removal of a group and update_hosts with
\* --confirm, on the answers y, n, "no" and one that the prompt does not
\* recognize.
NO_WORD == << "n", "o" >>

UNKNOWN == << "x" >>

PromptGroups == {None, DEFAULT}

PromptDomains == {None, A_COM}

PromptAnswers == {YES, NO, NO_WORD, UNKNOWN}

NextPrompt ==
  \/ /\ ~update
     /\ Handlers(PromptGroups, {None}, {None}, PromptDomains, {"domains"}, PromptAnswers)
  \/ Updates({16}, {0}, PromptAnswers)

SpecPrompt == Init /\ [][NextPrompt]_vars

(***************************************************************************)
(* The schedule test                                                       *)
(***************************************************************************)

\* C1: a group whose hours are the single integer spec n, on a matching
\* weekday, is live at the hour h exactly when h = n.
C1_IntegerSpecMatchesItsHour ==
  \A n \in HOURS, weekday \in WEEKDAYS :
    (/\ DEFAULT \in DOMAIN groups
     /\ groups[DEFAULT].hours = << ToStr(n) >>
     /\ in_day(groups[DEFAULT], weekday))
    => \A h \in HOURS : is_live(groups, DEFAULT, h, weekday) <=> (h = n)

\* C2: for a range spec "start-end" the hour check is true exactly at the
\* hours h with start <= h < end.
C2_RangeIsHalfOpen ==
  \A start \in HOURS, end \in HOURS :
    (DEFAULT \in DOMAIN groups /\ groups[DEFAULT].hours = << RangeStr(start, end) >>)
    => \A h \in HOURS : in_hours(groups[DEFAULT], h) <=> (start <= h /\ h < end)

\* the hosts file was written for a group with the hours "9-17", whose hour
\* check holds at 9 and 16 and fails at 8 and 17
C2_Witness ==
  /\ last = [op |-> "update_hosts", result |-> "written"]
  /\ groups[DEFAULT].hours = << H9_17 >>
  /\ in_hours(groups[DEFAULT], 9) /\ in_hours(groups[DEFAULT], 16)
  /\ ~in_hours(groups[DEFAULT], 8) /\ ~in_hours(groups[DEFAULT], 17)

(***************************************************************************)
(* The hours and the days of a group                                       *)
(***************************************************************************)

\* a list of specs that holds concrete specs only, and at least one
Concrete(specs) == specs # << >> /\ ~In(STAR, specs)

\* C3: add of "*" to concrete specs leaves exactly ["*"], and add of a
\* concrete spec to ["*"] leaves exactly that spec, for hours and for days.
C3_WildcardCollapse ==
  [][\A g \in ScheduleGroups, h \in ScheduleHours, d \in ScheduleDays :
       (/\ add(g, h, d, None)
        /\ last'.result = "saved"
        /\ add_groupname(g) \in DOMAIN groups)
       => LET before == groups[add_groupname(g)]
              after  == groups'[add_groupname(g)]
          IN  /\ (h = STAR /\ Concrete(before.hours)) => after.hours = << STAR >>
              /\ (h \notin {None, STAR} /\ before.hours = << STAR >>) => after.hours = << h >>
              /\ (d = STAR /\ Concrete(before.days)) => after.days = << STAR >>
              /\ (d \notin {None, STAR} /\ before.days = << STAR >>) => after.days = << d >>
    ]_vars

\* add has replaced the wildcard hours and the wildcard days by one concrete spec each
C3_Witness ==
  /\ last = [op |-> "add", result |-> "saved"]
  /\ DEFAULT \in DOMAIN groups
  /\ groups[DEFAULT].hours = << H8 >>
  /\ groups[DEFAULT].days = << Monday >>

NoMix(specs) == specs = << STAR >> \/ ~In(STAR, specs)

\* C4: in every reachable state each group's hours and each group's days are
\* exactly ["*"] or hold no "*".
C4_NeverMixed ==
  \A g \in DOMAIN groups : NoMix(groups[g].hours) /\ NoMix(groups[g].days)

\* a group holds two concrete hour specs next to the wildcard days
C4_Witness ==
  /\ DEFAULT \in DOMAIN groups
  /\ groups[DEFAULT].hours = << H8, H9_17 >>
  /\ groups[DEFAULT].days = << STAR >>

(***************************************************************************)
(* The domains and the active list                                         *)
(***************************************************************************)

NoDuplicates(list) ==
  \A i \in 1..Len(list), j \in 1..Len(list) : i # j => list[i] # list[j]

\* C5: no group's domains list holds the same domain twice.
C5_DomainsUnique == \A g \in DOMAIN groups : NoDuplicates(groups[g].domains)

\* C6: no group name occurs more than once in active.
C6_ActiveUnique == NoDuplicates(active)

\* C7: after deactivate(group) on a group that exists, the group is not in
\* active and contributes no domain at any instant.
C7_DeactivatedIsInactive ==
  [][\A g \in StoreGroups :
       (deactivate(g) /\ g \in DOMAIN groups)
       => /\ ~In(g, active')
          /\ \A hour \in HOURS, weekday \in WEEKDAYS :
               ~(In(g, active') /\ contributes(groups', g, hour, weekday))
    ]_vars

\* C8: the group "default" exists in every reachable state.
C8_DefaultExists == DEFAULT \in DOMAIN groups

(***************************************************************************)
(* The synthesized domain list and the hosts file                          *)
(***************************************************************************)

\* the domains of the groups named in active that exist and are live
BlockedDomains(hour, weekday) ==
  { dom \in UNION { Range(groups[g].domains) : g \in DOMAIN groups } :
      \E g \in DOMAIN groups :
        /\ In(g, active)
        /\ is_live(groups, g, hour, weekday)
        /\ In(dom, groups[g].domains) }

StrictlyAscending(list) ==
  \A i \in 1..Len(list), j \in 1..Len(list) : i < j => StrLess(list[i], list[j])

\* Monday, Tuesday and Sunday
SynthWeekdays == {0, 1, 6}

\* C9: at every instant the synthesized list is the ascending list, without
\* duplicates, of the domains of the active, existing, live groups.
C9_SynthesizedList ==
  \A hour \in HOURS, weekday \in SynthWeekdays :
    LET list == sorted_domains(groups, active, hour, weekday)
    IN  /\ Range(list) = BlockedDomains(hour, weekday)
        /\ StrictlyAscending(list)

\* update_hosts wrote a.com once and b.com after it, for two active groups
\* that both hold a.com
C9_Witness ==
  /\ last = [op |-> "update_hosts", result |-> "written"]
  /\ active = << DEFAULT, WORK >>
  /\ DOMAIN groups = {DEFAULT, WORK}
  /\ groups[DEFAULT].domains = << B_COM, A_COM >>
  /\ groups[WORK].domains = << A_COM >>
  /\ fs[hosts_file] = fs[hosts_file_template] \o disclaimer \o render_body(<< A_COM, B_COM >>)

\* C10: a second update cycle on the same store, template and instant writes
\* what the first wrote.
C10_RegenerationIdempotent ==
  hosts_file \in DOMAIN fs =>
    \A hour \in HOURS, weekday \in WEEKDAYS :
      LET first  == write_hosts(fs, groups, active, hour, weekday)
          second == write_hosts(first, groups, active, hour, weekday)
      IN  second[hosts_file] = first[hosts_file]

\* update_hosts has written the template, the disclaimer and a line for a.com
C10_Witness ==
  /\ last = [op |-> "update_hosts", result |-> "written"]
  /\ fs[hosts_file] = fs[hosts_file_template] \o disclaimer \o render_body(<< A_COM >>)
  /\ fs[hosts_file] = write_hosts(fs, groups, active, 16, 0)[hosts_file]

(***************************************************************************)
(* The bootstrap of the hosts files                                        *)
(***************************************************************************)

\* a step leaves the file at path as it is, once it exists
Kept(path) == path \in DOMAIN fs => (path \in DOMAIN fs' /\ fs'[path] = fs[path])

\* a step creates the file at path
Created(path) == path \notin DOMAIN fs /\ path \in DOMAIN fs'

\* C11: the original is created only when absent, as a copy of the live
\* file, and the template only when absent, as a copy of the original; once
\* they exist no step changes either, and the original is the live file of
\* before the first run.
C11_BootstrapPreserves ==
  [][/\ Kept(hosts_file_original)
     /\ Kept(hosts_file_template)
     /\ Created(hosts_file_original) => fs'[hosts_file_original] = fs[hosts_file]
     /\ Created(hosts_file_template) => fs'[hosts_file_template] = fs'[hosts_file_original]
     /\ hosts_file_original \in DOMAIN fs' => fs'[hosts_file_original] = pristine_hosts
    ]_vars

\* update_hosts wrote the hosts file, with a line for b.com, and the original
\* and the template are the hosts file of before the first run
C11_Witness ==
  /\ last = [op |-> "update_hosts", result |-> "written"]
  /\ fs[hosts_file] = pristine_hosts \o disclaimer \o render_body(<< B_COM >>)
  /\ fs[hosts_file_original] = pristine_hosts
  /\ fs[hosts_file_template] = pristine_hosts
  /\ groups[DEFAULT].domains = << B_COM >>

(***************************************************************************)
(* The options add() is to turn down                                       *)
(***************************************************************************)

\* an hour spec that is not "*", an hour 0..23 or a range of two such hours
InvalidHour(hour) == hour # None /\ hour \notin HourSpecs

\* a day spec that is not "*" or one of the seven weekday names
InvalidDay(day) == day # None /\ ~In(day, days_map)

\* C12: an add with an invalid hour spec or an invalid day spec leaves the
\* store as it was: no group created, no field changed, active unchanged.
C12_InvalidAddRejected ==
  [][\A g \in InvalidGroups, h \in InvalidHours, d \in InvalidDays :
       (add(g, h, d, None) /\ (InvalidHour(h) \/ InvalidDay(d)))
       => UNCHANGED << groups, active >>
    ]_vars

(***************************************************************************)
(* The answers at the prompts                                              *)
(***************************************************************************)

\* an answer that the prompt takes for its alternative n
Negative(command) == StartsWith(command, NO)

\* C13: when the answer at a confirmation prompt is no, the removal of a
\* group leaves the store as it was and update_hosts leaves the hosts file
\* unwritten.
C13_NoLeavesAlone ==
  [][\A c \in PromptAnswers :
       /\ \A g \in PromptGroups :
            (remove(g, None, None, None, << c >>) /\ Negative(Lower(c)))
            => UNCHANGED << groups, active >>
       /\ (update_hosts(16, 0, TRUE, << c >>) /\ Negative(c))
            => fs'[hosts_file] = fs[hosts_file]
    ]_vars

(***************************************************************************)
(* The removal of one value                                                *)
(***************************************************************************)

\* C14: remove of a domain, given as it was given to add, from a group that
\* holds it (once) leaves the group without it; when the group does not hold
\* it the store is unchanged.
C14_RemoveDomain ==
  [][\A g \in StoreGroups \ {None}, dom \in StoreDomains \ {None} :
       (/\ remove(g, None, dom, None, << >>)
        /\ Lower(g) \in DOMAIN groups
        /\ NoDuplicates(groups[Lower(g)].domains))
       => LET stored == normalize_domain(dom)
              before == groups[Lower(g)].domains
              after  == groups'[Lower(g)].domains
          IN  /\ In(stored, before) => ~In(stored, after)
              /\ ~In(stored, before) => groups' = groups
    ]_vars

(***************************************************************************)
(* The emptied hours and days                                              *)
(***************************************************************************)

\* the group is live at no hour of no weekday
NeverLive(gs, name) ==
  \A hour \in HOURS, weekday \in WEEKDAYS : ~is_live(gs, name, hour, weekday)

\* C15: after empty on hours (or days) the group exists with that field
\* empty, not the wildcard; a group with empty hours or empty days is live
\* at no instant; add of a concrete spec to the empty field leaves just
\* that spec.
C15_EmptiedField ==
  [][/\ \A g \in ScheduleGroups \ {None} :
          (Lower(g) \in DOMAIN groups) =>
            /\ empty(g, "hours") =>
                 /\ Lower(g) \in DOMAIN groups'
                 /\ groups'[Lower(g)].hours = << >>
                 /\ NeverLive(groups', Lower(g))
            /\ empty(g, "days") =>
                 /\ Lower(g) \in DOMAIN groups'
                 /\ groups'[Lower(g)].days = << >>
                 /\ NeverLive(groups', Lower(g))
     /\ \A name \in DOMAIN groups' :
          (groups'[name].hours = << >> \/ groups'[name].days = << >>)
          => NeverLive(groups', name)
     /\ \A g \in ScheduleGroups, h \in ScheduleHours, d \in ScheduleDays :
          LET name == add_groupname(g)
          IN  /\ (/\ name \in DOMAIN groups
                  /\ h \notin {None, STAR}
                  /\ groups[name].hours = << >>
                  /\ add(g, h, d, None))
                 => groups'[name].hours = << h >>
              /\ (/\ name \in DOMAIN groups
                  /\ d \notin {None, STAR}
                  /\ groups[name].days = << >>
                  /\ add(g, h, d, None))
                 => groups'[name].days = << d >>
    ]_vars

\* --empty hours ran on the group default, whose days are Monday: the hours
\* are empty and the group is not live on Monday at 9
C15_Witness ==
  /\ last = [op |-> "empty", result |-> "saved"]
  /\ DEFAULT \in DOMAIN groups
  /\ groups[DEFAULT].hours = << >>
  /\ groups[DEFAULT].days = << Monday >>
  /\ ~is_live(groups, DEFAULT, 9, 0)

(***************************************************************************)
(* The group that does not exist                                           *)
(***************************************************************************)

\* the step reports the error of op and leaves the store as it was
Refused(op) == last' = [op |-> op, result |-> "error"] /\ UNCHANGED << groups, active >>

\* C16: the removal of a group, the removal of a value and --empty on a
\* group name that does not exist report an error and leave the store as it
\* was, whatever would be answered at a prompt.
C16_MissingGroupRefused ==
  [][\A g \in InvalidGroups \ {None} :
       (Lower(g) \notin DOMAIN groups) =>
         /\ \A a \in Answers({YES, NO}) :
              remove(g, None, None, None, a) => Refused("remove")
         /\ \A h \in InvalidHours, d \in InvalidDays :
              (~(h = None /\ d = None) /\ remove(g, d, None, h, << >>)) => Refused("remove")
         /\ \A f \in {"hours", "days", "domains"} :
              empty(g, f) => Refused("empty")
    ]_vars

\* the group work was added and removed, and a later --remove --group work
\* was refused while the group default is there
C16_Witness ==
  /\ last = [op |-> "remove", result |-> "error"]
  /\ WORK \notin DOMAIN groups
  /\ In(WORK, active)
  /\ DEFAULT \in DOMAIN groups

(***************************************************************************)
(* The rendered body                                                       *)
(***************************************************************************)

\* the lines of a text: what stands between its newlines
RECURSIVE SplitLines(_)
SplitLines(text) ==
  IF ~In("\n", text) THEN << text >>
  ELSE LET i == CHOOSE k \in 1..Len(text) :
                  text[k] = "\n" /\ \A j \in 1..(k - 1) : text[j] # "\n"
       IN  << SubSeq(text, 1, i - 1) >> \o SplitLines(SubSeq(text, i + 1, Len(text)))

\* C17: the body is empty when no domain is blocked; otherwise it is an
\* empty line, then one line "blackhole TAB domain" per domain in sorted
\* order, with one newline between the lines and none after the last.
C17_RenderedBody ==
  \A hour \in {16, 17}, weekday \in {0} :
    LET list  == sorted_domains(groups, active, hour, weekday)
        body  == render_body(list)
        lines == SplitLines(body)
    IN  IF list = << >>
          THEN body = << >>
          ELSE /\ StrictlyAscending(list)
               /\ Len(lines) = Len(list) + 1
               /\ lines[1] = << >>
               /\ \A i \in 1..Len(list) :
                    lines[i + 1] = hosts_file_blackhole \o << "\t" >> \o list[i]
               /\ body[Len(body)] # "\n"

\* update_hosts wrote the lines of a.com and b.com after the disclaimer
C17_Witness ==
  /\ last = [op |-> "update_hosts", result |-> "written"]
  /\ hosts_file_template \in DOMAIN fs
  /\ fs[hosts_file] =
       fs[hosts_file_template] \o disclaimer \o
       << "\n", "127.0.0.250", "\t", "a", ".", "c", "o", "m",
          "\n", "127.0.0.250", "\t", "b", ".", "c", "o", "m" >>
  /\ sorted_domains(groups, active, 16, 0) = << A_COM, B_COM >>

(***************************************************************************)
(* The answer that the removal prompt does not recognize                   *)
(***************************************************************************)

\* C18: when the first answer to the removal prompt is not recognized, the
\* answer to the second prompt decides: after n the group stays in the
\* store, after y the group is deleted and the removal ends without error.
C18_RepromptDecides ==
  [][\A g \in PromptGroups \ {None}, second \in {YES, NO} :
       (/\ Lower(g) \in DOMAIN groups
        /\ remove(g, None, None, None, << UNKNOWN, second >>))
       => /\ second = NO => (groups' = groups /\ last'.result = "declined")
          /\ second = YES => (/\ groups' = del_group(groups, Lower(g))
                              /\ last'.result = "saved")
    ]_vars

====
